---- MODULE Spec2Model ----
(***************************************************************************)
(* Bitcoin chainhook evaluation and dispatch                               *)
(* (components/chainhook-event-observer/src/chainhooks/bitcoin/mod.rs).    *)
(*                                                                         *)
(* Strings that the code inspects character by character (hex strings,     *)
(* base58 addresses, HTTP methods, proofs) are sequences; strings the code *)
(* only copies (uuid, url, path, header) are TLA+ strings.                 *)
(***************************************************************************)
EXTENDS Naturals, Sequences, FiniteSets

VARIABLES
    pc,                   \* position of the pass: "start" or "done"
    chain_event,          \* BitcoinChainEvent handed to the evaluator
    active_chainhooks,    \* Vec<&BitcoinChainhookSpecification>
    outcome,              \* "none", "returned" or "panicked"
    triggered_chainhooks, \* Vec<BitcoinTriggerChainhook> returned by the evaluator
    trigger,              \* the BitcoinTriggerChainhook handed to the dispatcher
    proofs,               \* HashMap<&TransactionIdentifier, String>
    occurrence,           \* result of handle_bitcoin_hook_action
    payload,              \* result of serialize_bitcoin_payload_to_json
    chainhook,            \* the specification whose predicate is evaluated alone
    tx,                   \* the transaction it is evaluated on
    matched               \* result of evaluate_transaction_predicate

vars == <<pc, chain_event, active_chainhooks, outcome, triggered_chainhooks,
          trigger, proofs, occurrence, payload, chainhook, tx, matched>>

(***************************************************************************)
(* Bounds of the model.                                                    *)
(***************************************************************************)
MaxBlocks == 2      \* blocks in one chain event
MaxHooks == 2       \* active chainhooks in one pass
MaxScriptLen == 2   \* bytes of a script-pubkey or of an op-return target
MaxOutputs == 2     \* outputs of a transaction

(***************************************************************************)
(* Results of a Rust call that may panic.                                  *)
(***************************************************************************)
Ok(v) == [panic |-> FALSE, value |-> v]
Panic == [panic |-> TRUE, value |-> FALSE]

(***************************************************************************)
(* str::starts_with, str::ends_with on character sequences.                *)
(***************************************************************************)
starts_with(s, prefix) ==
    /\ Len(prefix) <= Len(s)
    /\ SubSeq(s, 1, Len(prefix)) = prefix

ends_with(s, suffix) ==
    /\ Len(suffix) <= Len(s)
    /\ SubSeq(s, Len(s) - Len(suffix) + 1, Len(s)) = suffix

(***************************************************************************)
(* clarity util::hash::to_hex: two lowercase hex digits per byte.          *)
(***************************************************************************)
HexDigits == <<"0","1","2","3","4","5","6","7","8","9","a","b","c","d","e","f">>

RECURSIVE to_hex(_)
to_hex(bytes) ==
    IF bytes = <<>> THEN <<>>
    ELSE <<HexDigits[(Head(bytes) \div 16) + 1], HexDigits[(Head(bytes) % 16) + 1]>>
         \o to_hex(Tail(bytes))

(***************************************************************************)
(* base58::FromBase58::from_base58: an error on a character outside the    *)
(* alphabet; otherwise one zero byte per leading '1' followed by the       *)
(* big-endian bytes of the base-58 number.                                 *)
(***************************************************************************)
Base58Alphabet ==
    <<"1","2","3","4","5","6","7","8","9","A","B","C","D","E","F","G","H","J",
      "K","L","M","N","P","Q","R","S","T","U","V","W","X","Y","Z","a","b","c",
      "d","e","f","g","h","i","j","k","m","n","o","p","q","r","s","t","u","v",
      "w","x","y","z">>

Base58Digit(c) == (CHOOSE i \in 1..Len(Base58Alphabet) : Base58Alphabet[i] = c) - 1

\* bytes * m + carry on a big-endian byte string
RECURSIVE MulAdd(_, _, _)
MulAdd(bytes, m, carry) ==
    IF bytes = <<>> THEN (IF carry = 0 THEN <<>> ELSE <<carry>>)
    ELSE LET v == bytes[Len(bytes)] * m + carry
         IN  MulAdd(SubSeq(bytes, 1, Len(bytes) - 1), m, v \div 256) \o <<v % 256>>

RECURSIVE Base58Number(_, _)
Base58Number(s, acc) ==
    IF s = <<>> THEN acc
    ELSE Base58Number(Tail(s), MulAdd(acc, 58, Base58Digit(Head(s))))

RECURSIVE LeadingOnes(_)
LeadingOnes(s) ==
    IF s # <<>> /\ Head(s) = "1" THEN <<0>> \o LeadingOnes(Tail(s)) ELSE <<>>

from_base58(s) ==
    IF \E i \in 1..Len(s) : \A j \in 1..Len(Base58Alphabet) : Base58Alphabet[j] # s[i]
    THEN [ok |-> FALSE, bytes |-> <<>>]
    ELSE [ok |-> TRUE, bytes |-> LeadingOnes(s) \o Base58Number(s, <<>>)]

(***************************************************************************)
(* bitcoin::blockdata::script::Builder and the opcodes the code pushes.    *)
(***************************************************************************)
OP_DUP == 118
OP_HASH160 == 169
OP_EQUALVERIFY == 136
OP_CHECKSIG == 172
OP_EQUAL == 135

push_opcode(script, op) == script \o <<op>>
\* data of fewer than 0x4c bytes: one length byte, then the data
push_slice(script, data) == script \o <<Len(data)>> \o data

P2pkhScript(decoded) ==
    push_opcode(push_opcode(push_slice(push_opcode(push_opcode(<<>>, OP_DUP), OP_HASH160),
        SubSeq(decoded, 2, 21)), OP_EQUALVERIFY), OP_CHECKSIG)

P2shScript(decoded) ==
    push_opcode(push_slice(push_opcode(<<>>, OP_HASH160), SubSeq(decoded, 2, 21)), OP_EQUAL)

\* 1A1zP1eP5QGefi2DMPTfTL5SLmv7DivfNa
GoodAddress ==
    <<"1","A","1","z","P","1","e","P","5","Q","G","e","f","i","2","D","M","P","T",
      "f","T","L","5","S","L","m","v","7","D","i","v","f","N","a">>
\* '0', 'O', 'I' and 'l' are not base58 characters
UndecodableAddress == <<"0","O","I","l">>
\* decodes to the two bytes 1f 8f
ShortAddress == <<"3","Q","J">>

AddressPool == {GoodAddress, UndecodableAddress, ShortAddress}

\* from_base58 tabulated over the addresses of the model, evaluated once
Base58Decoded == [a \in AddressPool |-> from_base58(a)]

\* address.from_base58().expect(..) followed by &bytes[1..21]
AddressPanics(address) ==
    ~Base58Decoded[address].ok \/ Len(Base58Decoded[address].bytes) < 21

(***************************************************************************)
(* BitcoinChainhookSpecification::evaluate_transaction_predicate           *)
(***************************************************************************)
\* for output in tx.metadata.outputs.iter()
Outputs(t) == {t.metadata.outputs[i].script_pubkey : i \in 1..Len(t.metadata.outputs)}

\* for op in tx.metadata.stacks_operations.iter()
Operations(t) ==
    {t.metadata.stacks_operations[i] : i \in 1..Len(t.metadata.stacks_operations)}

\* for reward in commitment.rewards.iter(), over the PoxBlockCommitment operations
Recipients(t) ==
    UNION { {op.rewards[j].recipient : j \in 1..Len(op.rewards)} :
            op \in {o \in Operations(t) : o.type = "PoxBlockCommitment"} }

AnyOperation(t, type) == \E op \in Operations(t) : op.type = type

\* the OpReturn arms with starts-with and ends-with exchanged
OpReturnMatches_RulesSwapped(rule, hex_bytes, t) ==
    CASE rule = "Equals" -> \E s \in Outputs(t) : s = hex_bytes
      [] rule = "StartsWith" -> \E s \in Outputs(t) : ends_with(s, hex_bytes)
      [] rule = "EndsWith" -> \E s \in Outputs(t) : starts_with(s, hex_bytes)

\* the three OpReturn arms: MatchingRule::Equals, StartsWith, EndsWith
OpReturnMatches(rule, hex_bytes, t) ==
    CASE rule = "Equals" -> \E s \in Outputs(t) : s = hex_bytes
      [] rule = "StartsWith" -> \E s \in Outputs(t) : starts_with(s, hex_bytes)
      [] rule = "EndsWith" -> \E s \in Outputs(t) : ends_with(s, hex_bytes)

evaluate_transaction_predicate(hook, t) ==
    LET kind == hook.predicate.kind
        rule == hook.predicate.rule
        value == hook.predicate.value
    IN
    CASE kind = "TransactionIdentifierHash" ->
            Ok(t.transaction_identifier.hash = value)
      [] kind = "OpReturn" -> Ok(OpReturnMatches(rule, value, t))
      [] kind = "P2pkh" ->
            IF AddressPanics(value) THEN Panic
            ELSE LET script == to_hex(P2pkhScript(Base58Decoded[value].bytes))
                 IN  Ok(\E s \in Outputs(t) : s = script)
      [] kind = "P2sh" ->
            IF AddressPanics(value) THEN Panic
            ELSE LET script == to_hex(P2shScript(Base58Decoded[value].bytes))
                 IN  Ok(\E s \in Outputs(t) : s = script)
      [] kind = "P2wpkh" -> Ok(FALSE)
      [] kind = "P2wsh" -> Ok(FALSE)
      [] kind = "Pob" -> Ok(AnyOperation(t, "PobBlockCommitment"))
      [] kind = "Pox" /\ rule = "Any" -> Ok(AnyOperation(t, "PoxBlockCommitment"))
      [] kind = "Pox" /\ rule = "RecipientEquals" ->
            Ok(\E r \in Recipients(t) : r = value)
      [] kind = "Pox" /\ rule = "RecipientStartsWith" ->
            Ok(\E r \in Recipients(t) : starts_with(r, value))
      [] kind = "Pox" /\ rule = "RecipientEndsWith" ->
            Ok(\E r \in Recipients(t) : ends_with(r, value))
      [] kind = "KeyRegistration" -> Ok(AnyOperation(t, "KeyRegistration"))
      [] kind = "TransferSTX" -> Ok(AnyOperation(t, "TransferSTX"))
      [] kind = "LockSTX" -> Ok(AnyOperation(t, "LockSTX"))

(***************************************************************************)
(* evaluate_bitcoin_chainhooks_on_chain_event                              *)
(***************************************************************************)
\* a scan that skips a pair it has already pushed
RECURSIVE ScanTransactions_Deduplicating(_, _, _, _)
ScanTransactions_Deduplicating(hook, block, i, entries) ==
    IF i > Len(block.transactions) THEN Ok(entries)
    ELSE LET t == block.transactions[i]
             r == evaluate_transaction_predicate(hook, t)
             seen == \E k \in 1..Len(entries) : entries[k] = <<t, block.block_identifier>>
         IN  IF r.panic THEN Panic
             ELSE ScanTransactions_Deduplicating(hook, block, i + 1,
                      IF r.value /\ ~seen THEN Append(entries, <<t, block.block_identifier>>)
                      ELSE entries)

\* for tx in block.transactions.iter() { if .. { entries.push((tx, &block.block_identifier)) } }
RECURSIVE ScanTransactions(_, _, _, _)
ScanTransactions(hook, block, i, entries) ==
    IF i > Len(block.transactions) THEN Ok(entries)
    ELSE LET t == block.transactions[i]
             r == evaluate_transaction_predicate(hook, t)
         IN  IF r.panic THEN Panic
             ELSE ScanTransactions(hook, block, i + 1,
                      IF r.value THEN Append(entries, <<t, block.block_identifier>>)
                      ELSE entries)

\* for block in blocks.iter() { .. }
RECURSIVE ScanBlocks(_, _, _, _)
ScanBlocks(hook, blocks, b, entries) ==
    IF b > Len(blocks) THEN Ok(entries)
    ELSE LET r == ScanTransactions(hook, blocks[b], 1, entries)
         IN  IF r.panic THEN Panic ELSE ScanBlocks(hook, blocks, b + 1, r.value)

\* the forward arm with rollback filled like apply
TriggerForBlocks_RollbackCopied(hook, event) ==
    LET apply == ScanBlocks(hook, event.new_blocks, 1, <<>>)
    IN  IF apply.panic THEN Panic
        ELSE IF apply.value # <<>>
             THEN Ok(<<[chainhook |-> hook, apply |-> apply.value, rollback |-> apply.value]>>)
             ELSE Ok(<<>>)

\* the ChainUpdatedWithBlocks arm for one chainhook: the triggers it pushes
TriggerForBlocks(hook, event) ==
    LET apply == ScanBlocks(hook, event.new_blocks, 1, <<>>)
        rollback == <<>>
    IN  IF apply.panic THEN Panic
        ELSE IF apply.value # <<>>
             THEN Ok(<<[chainhook |-> hook, apply |-> apply.value, rollback |-> rollback]>>)
             ELSE Ok(<<>>)

\* the reorg arm with the two block lists exchanged
TriggerForReorg_ListsSwapped(hook, event) ==
    LET apply == ScanBlocks(hook, event.blocks_to_rollback, 1, <<>>)
        rollback == ScanBlocks(hook, event.blocks_to_apply, 1, <<>>)
    IN  IF apply.panic \/ rollback.panic THEN Panic
        ELSE IF apply.value # <<>> \/ rollback.value # <<>>
             THEN Ok(<<[chainhook |-> hook, apply |-> apply.value, rollback |-> rollback.value]>>)
             ELSE Ok(<<>>)

\* the ChainUpdatedWithReorg arm for one chainhook: the triggers it pushes
TriggerForReorg(hook, event) ==
    LET apply == ScanBlocks(hook, event.blocks_to_apply, 1, <<>>)
        rollback == ScanBlocks(hook, event.blocks_to_rollback, 1, <<>>)
    IN  IF apply.panic \/ rollback.panic THEN Panic
        ELSE IF apply.value # <<>> \/ rollback.value # <<>>
             THEN Ok(<<[chainhook |-> hook, apply |-> apply.value, rollback |-> rollback.value]>>)
             ELSE Ok(<<>>)

\* the loop over the chainhooks inserting each Trigger at the front
RECURSIVE EvaluateChainhooks_Prepending(_, _, _, _)
EvaluateChainhooks_Prepending(event, hooks, i, triggered) ==
    IF i > Len(hooks) THEN Ok(triggered)
    ELSE LET r == IF event.type = "ChainUpdatedWithBlocks"
                  THEN TriggerForBlocks(hooks[i], event)
                  ELSE TriggerForReorg(hooks[i], event)
         IN  IF r.panic THEN Panic
             ELSE EvaluateChainhooks_Prepending(event, hooks, i + 1, r.value \o triggered)

\* for chainhook in active_chainhooks.iter() { .. triggered_chainhooks.push(..) }
RECURSIVE EvaluateChainhooks(_, _, _, _)
EvaluateChainhooks(event, hooks, i, triggered) ==
    IF i > Len(hooks) THEN Ok(triggered)
    ELSE LET r == IF event.type = "ChainUpdatedWithBlocks"
                  THEN TriggerForBlocks(hooks[i], event)
                  ELSE TriggerForReorg(hooks[i], event)
         IN  IF r.panic THEN Panic
             ELSE EvaluateChainhooks(event, hooks, i + 1, triggered \o r.value)

evaluate_bitcoin_chainhooks_on_chain_event(event, hooks) ==
    EvaluateChainhooks(event, hooks, 1, <<>>)

(***************************************************************************)
(* Inputs: transactions, blocks, chainhooks.                               *)
(***************************************************************************)
SeqsUpTo(S, n) == UNION {[1..k -> S] : k \in 0..n}

Output(script) == [script_pubkey |-> script]

Transaction(hash, outputs, operations) ==
    [transaction_identifier |-> [hash |-> hash],
     metadata |-> [outputs |-> outputs, stacks_operations |-> operations]]

\* 76a91462e907b15cbf27d5425399ebf6f0fb50ebb88f1888ac: the P2PKH script of GoodAddress
GoodAddressScript ==
    <<"7","6","a","9","1","4","6","2","e","9","0","7","b","1","5","c","b","f","2",
      "7","d","5","4","2","5","3","9","9","e","b","f","6","f","0","f","b","5","0",
      "e","b","b","8","8","f","1","8","8","8","a","c">>
RewardRecipient == <<"m","r","1">>

TxOpReturn == Transaction(<<"t","1">>, <<Output(<<"a","a","b","b">>)>>, <<>>)
TxP2pkh == Transaction(<<"t","2">>,
               <<Output(<<"a","a","c","c">>), Output(GoodAddressScript)>>, <<>>)
TxPox == Transaction(<<"t","3">>, <<>>,
             <<[type |-> "KeyRegistration"],
               [type |-> "PoxBlockCommitment", rewards |-> <<[recipient |-> RewardRecipient]>>]>>)

Block(index, hash, transactions) ==
    [block_identifier |-> [index |-> index, hash |-> hash], transactions |-> transactions]

BlockPool ==
    { Block(1, "h1", <<TxOpReturn, TxP2pkh>>),
      Block(2, "h2", <<TxOpReturn, TxOpReturn>>),
      Block(3, "h3", <<TxP2pkh, TxPox>>) }

Predicate(kind, rule, value) == [kind |-> kind, rule |-> rule, value |-> value]

Chainhook(uuid, predicate, action) ==
    [uuid |-> uuid, predicate |-> predicate, action |-> action]

Noop == [type |-> "Noop"]

HookOpReturn == Chainhook("op", Predicate("OpReturn", "StartsWith", <<"a","a">>), Noop)
HookP2pkh == Chainhook("p2pkh", Predicate("P2pkh", "Equals", GoodAddress), Noop)
HookPox == Chainhook("pox", Predicate("Pox", "RecipientEndsWith", <<"r","1">>), Noop)
HookUndecodable == Chainhook("bad", Predicate("P2pkh", "Equals", UndecodableAddress), Noop)
HookShort == Chainhook("short", Predicate("P2sh", "Equals", ShortAddress), Noop)

HookPool == {HookOpReturn, HookP2pkh, HookPox, HookUndecodable, HookShort}

ChainEvents ==
    { [type |-> "ChainUpdatedWithBlocks", new_blocks |-> bs] :
        bs \in SeqsUpTo(BlockPool, MaxBlocks) }
    \cup
    { [type |-> "ChainUpdatedWithReorg", blocks_to_apply |-> p[1], blocks_to_rollback |-> p[2]] :
        p \in { q \in SeqsUpTo(BlockPool, MaxBlocks) \X SeqsUpTo(BlockPool, MaxBlocks) :
                  Len(q[1]) + Len(q[2]) <= MaxBlocks } }

(***************************************************************************)
(* One evaluation pass.                                                    *)
(***************************************************************************)
Idle == [type |-> "None"]

Init ==
    /\ pc = "start"
    /\ chain_event \in ChainEvents
    /\ active_chainhooks \in SeqsUpTo(HookPool, MaxHooks)
    /\ outcome = "none"
    /\ triggered_chainhooks = <<>>
    /\ trigger = Idle /\ proofs = <<>> /\ occurrence = Idle /\ payload = Idle
    /\ chainhook = Idle /\ tx = Idle /\ matched = Idle

Evaluate ==
    /\ pc = "start"
    /\ LET r == evaluate_bitcoin_chainhooks_on_chain_event(chain_event, active_chainhooks)
       IN  /\ outcome' = IF r.panic THEN "panicked" ELSE "returned"
           /\ triggered_chainhooks' = IF r.panic THEN <<>> ELSE r.value
    /\ pc' = "done"
    /\ UNCHANGED <<chain_event, active_chainhooks, trigger, proofs, occurrence, payload,
                   chainhook, tx, matched>>

Next == Evaluate

Spec == Init /\ [][Next]_vars

(***************************************************************************)
(* What an evaluation pass is expected to return, stated over the inputs.  *)
(***************************************************************************)
Matches(hook, t) ==
    LET r == evaluate_transaction_predicate(hook, t)
    IN  ~r.panic /\ r.value

\* the block list scanned into apply, and the one scanned into rollback
ApplyBlocks(event) ==
    IF event.type = "ChainUpdatedWithBlocks" THEN event.new_blocks ELSE event.blocks_to_apply

RollbackBlocks(event) ==
    IF event.type = "ChainUpdatedWithBlocks" THEN <<>> ELSE event.blocks_to_rollback

\* every (transaction, block identifier) pair of a block list, in block then transaction order
RECURSIVE PairsOf(_)
PairsOf(blocks) ==
    IF blocks = <<>> THEN <<>>
    ELSE [i \in 1..Len(Head(blocks).transactions) |->
              <<Head(blocks).transactions[i], Head(blocks).block_identifier>>]
         \o PairsOf(Tail(blocks))

Range(seq) == {seq[i] : i \in 1..Len(seq)}

MatchingPairs(hook, blocks) ==
    LET Test(pair) == Matches(hook, pair[1])
    IN  SelectSeq(PairsOf(blocks), Test)

HasMatch(hook, event) ==
    \E pair \in Range(PairsOf(ApplyBlocks(event))) \cup Range(PairsOf(RollbackBlocks(event))) :
        Matches(hook, pair[1])

TransactionsOf(blocks) == {pair[1] : pair \in Range(PairsOf(blocks))}

InvalidAddressEncoding(hook) ==
    /\ hook.predicate.kind \in {"P2pkh", "P2sh"}
    /\ \/ ~Base58Decoded[hook.predicate.value].ok
       \/ Len(Base58Decoded[hook.predicate.value].bytes) < 21

Done == pc = "done"

\* C1: a Trigger is emitted for a subscription if and only if at least one scanned
\* transaction matches its predicate, and no Trigger has both apply and rollback empty.
C1_TriggerIffMatch ==
    Done =>
        /\ \A i \in 1..Len(active_chainhooks) :
               (\E k \in 1..Len(triggered_chainhooks) :
                    triggered_chainhooks[k].chainhook = active_chainhooks[i])
               <=> HasMatch(active_chainhooks[i], chain_event)
        /\ \A k \in 1..Len(triggered_chainhooks) :
               triggered_chainhooks[k].apply # <<>> \/ triggered_chainhooks[k].rollback # <<>>

\* C2: on a forward-progress event every returned Trigger has an empty rollback sequence.
C2_ForwardRollbackEmpty ==
    (Done /\ chain_event.type = "ChainUpdatedWithBlocks") =>
        \A k \in 1..Len(triggered_chainhooks) : triggered_chainhooks[k].rollback = <<>>

C2_Witness ==
    /\ Done /\ chain_event.type = "ChainUpdatedWithBlocks"
    /\ Len(chain_event.new_blocks) = 2
    /\ Len(triggered_chainhooks) = 2
    /\ Len(triggered_chainhooks[1].apply) >= 2

\* C3: on a reorg every apply entry is a pair of blocks_to_apply and every rollback entry a
\* pair of blocks_to_rollback; a matching transaction that occurs only in
\* blocks_to_rollback is in no apply entry, and one only in blocks_to_apply in no rollback entry.
C3_ReorgNoCrossContamination ==
    (Done /\ chain_event.type = "ChainUpdatedWithReorg") =>
        \A k \in 1..Len(triggered_chainhooks) :
            LET tr == triggered_chainhooks[k]
                toApply == TransactionsOf(chain_event.blocks_to_apply)
                toRollback == TransactionsOf(chain_event.blocks_to_rollback)
            IN  /\ Range(tr.apply) \subseteq Range(PairsOf(chain_event.blocks_to_apply))
                /\ Range(tr.rollback) \subseteq Range(PairsOf(chain_event.blocks_to_rollback))
                /\ \A t \in toRollback \ toApply :
                       Matches(tr.chainhook, t) => \A e \in Range(tr.apply) : e[1] # t
                /\ \A t \in toApply \ toRollback :
                       Matches(tr.chainhook, t) => \A e \in Range(tr.rollback) : e[1] # t

C3_Witness ==
    /\ Done /\ chain_event.type = "ChainUpdatedWithReorg"
    /\ \E k \in 1..Len(triggered_chainhooks) :
           LET tr == triggered_chainhooks[k]
           IN  /\ tr.apply # <<>> /\ tr.rollback # <<>>
               /\ \E e \in Range(tr.apply) :
                      e[1] \notin TransactionsOf(chain_event.blocks_to_rollback)
               /\ \E e \in Range(tr.rollback) :
                      e[1] \notin TransactionsOf(chain_event.blocks_to_apply)

\* C4: the apply (and the rollback) sequence of a Trigger is exactly the subsequence of
\* matching (transaction, block identifier) pairs of the scanned block list, in block
\* order then transaction order, nothing reordered, dropped or deduplicated.
C4_EntriesAreMatchingSubsequence ==
    Done =>
        \A k \in 1..Len(triggered_chainhooks) :
            LET tr == triggered_chainhooks[k]
            IN  /\ tr.apply = MatchingPairs(tr.chainhook, ApplyBlocks(chain_event))
                /\ tr.rollback = MatchingPairs(tr.chainhook, RollbackBlocks(chain_event))

\* a matching transaction occurring twice in one block, after a match in an earlier block
C4_Witness ==
    /\ Done
    /\ \E k \in 1..Len(triggered_chainhooks) :
           LET a == triggered_chainhooks[k].apply
           IN  /\ Len(a) >= 3
               /\ \E i \in 1..(Len(a) - 1) : a[i][2] # a[i + 1][2]
               /\ \E i \in 1..(Len(a) - 1) : a[i] = a[i + 1]

\* C5: the returned Triggers follow the order of active_chainhooks: each position of the
\* active list yields at most one Trigger, and Triggers of earlier positions come first.
C5_TriggersPreserveOrder ==
    Done =>
        \E f \in [1..Len(triggered_chainhooks) -> 1..Len(active_chainhooks)] :
            /\ \A k \in 1..Len(triggered_chainhooks) :
                   triggered_chainhooks[k].chainhook = active_chainhooks[f[k]]
            /\ \A j, k \in 1..Len(triggered_chainhooks) : j < k => f[j] < f[k]

C5_Witness ==
    /\ Done
    /\ Len(triggered_chainhooks) = 2
    /\ triggered_chainhooks[1].chainhook # triggered_chainhooks[2].chainhook

\* C6: a P2PKH or P2SH predicate whose address fails base58 decoding or decodes to fewer
\* than 21 bytes is reported as a failure of that subscription alone: the pass does not
\* abort, and the sibling subscriptions still get their Triggers.
C6_InvalidAddressIsTypedFailure ==
    (Done /\ \E i \in 1..Len(active_chainhooks) : InvalidAddressEncoding(active_chainhooks[i])) =>
        /\ outcome = "returned"
        /\ \A i \in 1..Len(active_chainhooks) :
               HasMatch(active_chainhooks[i], chain_event) =>
                   \E k \in 1..Len(triggered_chainhooks) :
                       triggered_chainhooks[k].chainhook = active_chainhooks[i]

(***************************************************************************)
(* One predicate evaluated on one transaction: op-return rules over every  *)
(* byte string of at most MaxScriptLen bytes, hex-encoded as the indexer   *)
(* encodes script-pubkeys.                                                 *)
(***************************************************************************)
ByteValues == {170, 187}    \* 0xAA, 0xBB

ByteStrings == SeqsUpTo(ByteValues, MaxScriptLen)

OpReturnHooks ==
    { Chainhook("op", Predicate("OpReturn", rule, to_hex(target)), Noop) :
        rule \in {"Equals", "StartsWith", "EndsWith"}, target \in ByteStrings }

OpReturnTransactions ==
    { Transaction(<<"t","0">>, outputs, <<>>) :
        outputs \in SeqsUpTo({Output(to_hex(script)) : script \in ByteStrings}, MaxOutputs) }

InitPredicate ==
    /\ pc = "start"
    /\ chainhook \in OpReturnHooks
    /\ tx \in OpReturnTransactions
    /\ matched = Idle
    /\ chain_event = Idle /\ active_chainhooks = <<>> /\ outcome = "none"
    /\ triggered_chainhooks = <<>>
    /\ trigger = Idle /\ proofs = <<>> /\ occurrence = Idle /\ payload = Idle

EvaluatePredicate ==
    /\ pc = "start"
    /\ matched' = evaluate_transaction_predicate(chainhook, tx)
    /\ pc' = "done"
    /\ UNCHANGED <<chain_event, active_chainhooks, outcome, triggered_chainhooks,
                   trigger, proofs, occurrence, payload, chainhook, tx>>

NextPredicate == EvaluatePredicate

SpecPredicate == InitPredicate /\ [][NextPredicate]_vars

(***************************************************************************)
(* The op-return rules stated on bytes.                                    *)
(***************************************************************************)
HexValue(c) == (CHOOSE i \in 1..16 : HexDigits[i] = c) - 1

\* the bytes a hex string encodes
RECURSIVE BytesOfHex(_)
BytesOfHex(hex) ==
    IF Len(hex) < 2 THEN <<>>
    ELSE <<HexValue(hex[1]) * 16 + HexValue(hex[2])>> \o BytesOfHex(SubSeq(hex, 3, Len(hex)))

BytesSatisfy(rule, script, target) ==
    CASE rule = "Equals" ->
            Len(script) = Len(target) /\ \A i \in 1..Len(target) : script[i] = target[i]
      [] rule = "StartsWith" ->
            Len(target) <= Len(script) /\ \A i \in 1..Len(target) : script[i] = target[i]
      [] rule = "EndsWith" ->
            /\ Len(target) <= Len(script)
            /\ \A i \in 1..Len(target) : script[Len(script) - Len(target) + i] = target[i]

ScriptsOf(t) == {BytesOfHex(s) : s \in Outputs(t)}

\* C10: an op-return predicate (equals, starts-with, ends-with) matches a transaction if
\* and only if one of its outputs has a script-pubkey satisfying the rule against the
\* target bytes; starts_with(0xAA) matches 0xAABB and not 0xBBAA; a transaction without
\* outputs never matches.
C10_OpReturnMatchesIffSomeOutput ==
    Done =>
        /\ ~matched.panic
        /\ matched.value <=>
               \E script \in ScriptsOf(tx) :
                   BytesSatisfy(chainhook.predicate.rule, script,
                                BytesOfHex(chainhook.predicate.value))
        /\ (chainhook.predicate.rule = "StartsWith" /\ chainhook.predicate.value = <<"a","a">>) =>
               /\ <<"a","a","b","b">> \in Outputs(tx) => matched.value
               /\ Outputs(tx) = {<<"b","b","a","a">>} => ~matched.value
        /\ tx.metadata.outputs = <<>> => ~matched.value

\* starts_with(0xAA) on outputs 0xBBAA, 0xAABB: the second output matches
C10_Witness ==
    /\ Done
    /\ chainhook.predicate.rule = "StartsWith"
    /\ chainhook.predicate.value = <<"a","a">>
    /\ tx.metadata.outputs = <<Output(<<"b","b","a","a">>), Output(<<"a","a","b","b">>)>>
    /\ matched.value

(***************************************************************************)
(* serialize_bitcoin_payload_to_json and handle_bitcoin_hook_action        *)
(***************************************************************************)
CONFIRMATIONS == 1

\* serde_json values of an Option<&String>
JsonNull == [json |-> "null"]
JsonString(s) == [json |-> "string", value |-> s]

\* Option<Vec<u8>>
None == [some |-> FALSE]
Some(v) == [some |-> TRUE, value |-> v]

\* proofs.get(&transaction.transaction_identifier)
ProofsGet(lookup, t) ==
    IF t.transaction_identifier \in DOMAIN lookup
    THEN Some(lookup[t.transaction_identifier])
    ELSE None

\* serialization of an Option<&String> by json!
JsonOfOption(opt) == IF opt.some THEN JsonString(opt.value) ELSE JsonNull

\* the payload with a proof looked up for the rollback entries as well
serialize_bitcoin_payload_to_json_ProofOnRollback(tr, lookup) ==
    [apply |-> [i \in 1..Len(tr.apply) |->
                  [transaction |-> tr.apply[i][1],
                   block_identifier |-> tr.apply[i][2],
                   confirmations |-> CONFIRMATIONS,
                   proof |-> JsonOfOption(ProofsGet(lookup, tr.apply[i][1]))]],
     rollback |-> [i \in 1..Len(tr.rollback) |->
                  [transaction |-> tr.rollback[i][1],
                   block_identifier |-> tr.rollback[i][2],
                   confirmations |-> CONFIRMATIONS,
                   proof |-> JsonOfOption(ProofsGet(lookup, tr.rollback[i][1]))]],
     chainhook |-> [uuid |-> tr.chainhook.uuid, predicate |-> tr.chainhook.predicate]]

serialize_bitcoin_payload_to_json(tr, lookup) ==
    [apply |-> [i \in 1..Len(tr.apply) |->
                  [transaction |-> tr.apply[i][1],
                   block_identifier |-> tr.apply[i][2],
                   confirmations |-> CONFIRMATIONS,
                   proof |-> JsonOfOption(ProofsGet(lookup, tr.apply[i][1]))]],
     rollback |-> [i \in 1..Len(tr.rollback) |->
                  [transaction |-> tr.rollback[i][1],
                   block_identifier |-> tr.rollback[i][2],
                   confirmations |-> CONFIRMATIONS]],
     chainhook |-> [uuid |-> tr.chainhook.uuid, predicate |-> tr.chainhook.predicate]]

\* String::into_bytes: the UTF-8 encoding of a string given as its code points
Utf8Encode(cp) ==
    IF cp < 128 THEN <<cp>>
    ELSE IF cp < 2048 THEN <<192 + (cp \div 64), 128 + (cp % 64)>>
    ELSE IF cp < 65536
         THEN <<224 + (cp \div 4096), 128 + ((cp \div 64) % 64), 128 + (cp % 64)>>
    ELSE <<240 + (cp \div 262144), 128 + ((cp \div 4096) % 64),
           128 + ((cp \div 64) % 64), 128 + (cp % 64)>>

RECURSIVE into_bytes(_)
into_bytes(str) ==
    IF str = <<>> THEN <<>> ELSE Utf8Encode(Head(str)) \o into_bytes(Tail(str))

\* http::Method::from_bytes: an error on an empty method or on a byte that is no token
\* character (the apostrophe and the backquote, token characters too, are not written here)
MethodChars ==
    {"A","B","C","D","E","F","G","H","I","J","K","L","M","N","O","P","Q","R","S","T","U",
     "V","W","X","Y","Z","a","b","c","d","e","f","g","h","i","j","k","l","m","n","o","p",
     "q","r","s","t","u","v","w","x","y","z","0","1","2","3","4","5","6","7","8","9",
     "!","#","$","%","&","*","+","-",".","^","_","|","~"}

MethodParses(method) ==
    /\ Len(method) > 0
    /\ \A i \in 1..Len(method) : method[i] \in MethodChars

\* serde_json::to_vec(..).unwrap(): injective on payloads; the body is kept as the payload
\* it is the text of
to_vec(json) == [json_text_of |-> json]

\* the in-process payload with every proof left out
NoopOccurrencePayload_ProofDropped(tr, lookup) ==
    [apply |-> [i \in 1..Len(tr.apply) |->
                  [transaction |-> tr.apply[i][1],
                   block_identifier |-> tr.apply[i][2],
                   confirmations |-> CONFIRMATIONS,
                   proof |-> None]],
     rollback |-> [i \in 1..Len(tr.rollback) |->
                  [transaction |-> tr.rollback[i][1],
                   block_identifier |-> tr.rollback[i][2],
                   confirmations |-> CONFIRMATIONS]],
     chainhook |-> [uuid |-> tr.chainhook.uuid]]

\* BitcoinChainhookOccurrencePayload built in the HookAction::Noop arm
NoopOccurrencePayload(tr, lookup) ==
    [apply |-> [i \in 1..Len(tr.apply) |->
                  [transaction |-> tr.apply[i][1],
                   block_identifier |-> tr.apply[i][2],
                   confirmations |-> CONFIRMATIONS,
                   proof |-> LET r == ProofsGet(lookup, tr.apply[i][1])
                             IN  IF r.some THEN Some(into_bytes(r.value)) ELSE None]],
     rollback |-> [i \in 1..Len(tr.rollback) |->
                  [transaction |-> tr.rollback[i][1],
                   block_identifier |-> tr.rollback[i][2],
                   confirmations |-> CONFIRMATIONS]],
     chainhook |-> [uuid |-> tr.chainhook.uuid]]

handle_bitcoin_hook_action(tr, lookup) ==
    LET action == tr.chainhook.action
    IN
    CASE action.type = "Http" ->
            IF ~MethodParses(action.method) THEN Panic
            ELSE Ok(Some([type |-> "Http",
                          method |-> action.method,
                          url |-> action.url,
                          headers |-> <<<<"Content-Type", "application/json">>,
                                        <<"Authorization", action.authorization_header>>>>,
                          body |-> to_vec(serialize_bitcoin_payload_to_json(tr, lookup))]))
      [] action.type = "File" ->
            Ok(Some([type |-> "File",
                     path |-> action.path,
                     bytes |-> to_vec(serialize_bitcoin_payload_to_json(tr, lookup))]))
      [] action.type = "Noop" ->
            Ok(Some([type |-> "Data", data |-> NoopOccurrencePayload(tr, lookup)]))

(***************************************************************************)
(* Dispatch of one Trigger of an evaluation pass.                          *)
(***************************************************************************)
Http(method) ==
    [type |-> "Http", url |-> "http://localhost:3000/hook", method |-> method,
     authorization_header |-> "Bearer token"]

File == [type |-> "File", path |-> "occurrences.json"]

ActionPool ==
    { Http(<<"P","O","S","T">>), Http(<<"P","O"," ","S","T">>), Http(<<>>), File, Noop }

DispatchHookPool ==
    { Chainhook("dispatch", Predicate("OpReturn", "StartsWith", <<"a","a">>), action) :
        action \in ActionPool }

\* the Triggers an evaluation pass returns for one chainhook of the pool
TriggerPool ==
    UNION { LET r == evaluate_bitcoin_chainhooks_on_chain_event(event, <<hook>>)
            IN  IF r.panic THEN {} ELSE Range(r.value) :
            event \in ChainEvents, hook \in DispatchHookPool }

\* "a1" and U+00E9 (e with acute accent)
ProofPool == { <<97, 49>>, <<233>> }

ProofKeys == { TxOpReturn.transaction_identifier, TxP2pkh.transaction_identifier }

ProofLookups == UNION { [keys -> ProofPool] : keys \in SUBSET ProofKeys }

InitDispatch ==
    /\ pc = "start"
    /\ trigger \in TriggerPool
    /\ proofs \in ProofLookups
    /\ occurrence = Idle
    /\ payload = Idle
    /\ chain_event = Idle /\ active_chainhooks = <<>> /\ outcome = "none"
    /\ triggered_chainhooks = <<>>
    /\ chainhook = Idle /\ tx = Idle /\ matched = Idle

HandleAction ==
    /\ occurrence = Idle
    /\ occurrence' = handle_bitcoin_hook_action(trigger, proofs)
    /\ pc' = IF payload # Idle THEN "done" ELSE pc
    /\ UNCHANGED <<chain_event, active_chainhooks, outcome, triggered_chainhooks,
                   trigger, proofs, payload, chainhook, tx, matched>>

SerializePayload ==
    /\ payload = Idle
    /\ payload' = serialize_bitcoin_payload_to_json(trigger, proofs)
    /\ pc' = IF occurrence # Idle THEN "done" ELSE pc
    /\ UNCHANGED <<chain_event, active_chainhooks, outcome, triggered_chainhooks,
                   trigger, proofs, occurrence, chainhook, tx, matched>>

NextDispatch == HandleAction \/ SerializePayload

SpecDispatch == InitDispatch /\ [][NextDispatch]_vars

(***************************************************************************)
(* What dispatch is expected to produce, stated over the Trigger and the   *)
(* proof lookup.                                                           *)
(***************************************************************************)
Handled == occurrence # Idle
Serialized == payload # Idle

\* the code points a UTF-8 byte string encodes
RECURSIVE Utf8Decode(_)
Utf8Decode(bytes) ==
    IF bytes = <<>> THEN <<>>
    ELSE LET b == Head(bytes)
         IN  IF b < 128 THEN <<b>> \o Utf8Decode(Tail(bytes))
             ELSE IF b < 224
                  THEN <<(b - 192) * 64 + (bytes[2] - 128)>>
                       \o Utf8Decode(SubSeq(bytes, 3, Len(bytes)))
             ELSE IF b < 240
                  THEN <<(b - 224) * 4096 + (bytes[2] - 128) * 64 + (bytes[3] - 128)>>
                       \o Utf8Decode(SubSeq(bytes, 4, Len(bytes)))
             ELSE <<(b - 240) * 262144 + (bytes[2] - 128) * 4096
                    + (bytes[3] - 128) * 64 + (bytes[4] - 128)>>
                  \o Utf8Decode(SubSeq(bytes, 5, Len(bytes)))

HasProof(t) == t.transaction_identifier \in DOMAIN proofs

\* C7: dispatching a Trigger whose Http action has a method string that cannot be parsed
\* yields an error outcome for that subscription, not a panic.
C7_MalformedMethodIsError ==
    (/\ Handled
     /\ trigger.chainhook.action.type = "Http"
     /\ ~MethodParses(trigger.chainhook.action.method))
    => ~occurrence.panic

\* the proofs carried by the entries of the JSON payload and of the in-process payload
PayloadProofs ==
    /\ Serialized =>
           /\ Len(payload.apply) = Len(trigger.apply)
           /\ Len(payload.rollback) = Len(trigger.rollback)
           /\ \A i \in 1..Len(trigger.apply) :
                  payload.apply[i].proof =
                      IF HasProof(trigger.apply[i][1])
                      THEN JsonString(proofs[trigger.apply[i][1].transaction_identifier])
                      ELSE JsonNull
           /\ \A i \in 1..Len(trigger.rollback) :
                  "proof" \notin DOMAIN payload.rollback[i]
    /\ (Handled /\ trigger.chainhook.action.type = "Noop") =>
           LET data == occurrence.value.value.data
           IN  /\ Len(data.apply) = Len(trigger.apply)
               /\ Len(data.rollback) = Len(trigger.rollback)
               /\ \A i \in 1..Len(trigger.apply) :
                      IF HasProof(trigger.apply[i][1])
                      THEN /\ data.apply[i].proof.some
                           /\ Utf8Decode(data.apply[i].proof.value)
                                  = proofs[trigger.apply[i][1].transaction_identifier]
                      ELSE data.apply[i].proof = None
               /\ \A i \in 1..Len(trigger.rollback) :
                      "proof" \notin DOMAIN data.rollback[i]

\* C8: in the payload built from a Trigger and a proof lookup every apply entry carries
\* the proof the lookup holds for its transaction identifier and none when the lookup has
\* no entry; no rollback entry has a proof field, even when the lookup holds a proof for
\* its transaction; building the payload leaves the lookup unchanged.
C8_PayloadProofs == []PayloadProofs /\ [][proofs' = proofs]_vars

\* an apply entry with a proof, one without, and a rollback entry whose transaction has a
\* proof in the lookup
C8_Witness ==
    /\ Serialized
    /\ \E i \in 1..Len(trigger.apply) : HasProof(trigger.apply[i][1])
    /\ \E i \in 1..Len(trigger.apply) : ~HasProof(trigger.apply[i][1])
    /\ \E i \in 1..Len(trigger.rollback) : HasProof(trigger.rollback[i][1])

\* the entries of the in-process payload and of the JSON payload agree, in order
SameEntries(data, json) ==
    /\ Len(data.apply) = Len(json.apply)
    /\ Len(data.apply) = Len(trigger.apply)
    /\ \A i \in 1..Len(data.apply) :
           /\ data.apply[i].transaction = json.apply[i].transaction
           /\ data.apply[i].block_identifier = json.apply[i].block_identifier
           /\ data.apply[i].confirmations = json.apply[i].confirmations
           /\ IF data.apply[i].proof.some
              THEN json.apply[i].proof = JsonString(Utf8Decode(data.apply[i].proof.value))
              ELSE json.apply[i].proof = JsonNull
    /\ Len(data.rollback) = Len(json.rollback)
    /\ Len(data.rollback) = Len(trigger.rollback)
    /\ \A i \in 1..Len(data.rollback) :
           /\ data.rollback[i].transaction = json.rollback[i].transaction
           /\ data.rollback[i].block_identifier = json.rollback[i].block_identifier
           /\ data.rollback[i].confirmations = json.rollback[i].confirmations

NoopHandledAndSerialized ==
    Handled /\ Serialized /\ trigger.chainhook.action.type = "Noop"

\* C9 as stated: the in-process (Noop) occurrence has the same logical fields as the JSON
\* payload for the same inputs: the same apply and rollback entries in the same order and
\* the same chainhook summary, uuid and predicate echo.
C9_NoopSameFieldsAsJson ==
    NoopHandledAndSerialized =>
        LET data == occurrence.value.value.data
        IN  /\ SameEntries(data, payload)
            /\ data.chainhook.uuid = payload.chainhook.uuid
            /\ "predicate" \in DOMAIN data.chainhook
            /\ data.chainhook.predicate = payload.chainhook.predicate

\* C9 amended: the in-process (Noop) occurrence has the same apply and rollback entries
\* as the JSON payload, in the same order, and the same chainhook uuid; its chainhook
\* summary holds the uuid only, the JSON payload's holds the predicate echo as well.
C9_NoopSameEntriesAndUuid ==
    NoopHandledAndSerialized =>
        LET data == occurrence.value.value.data
        IN  /\ SameEntries(data, payload)
            /\ data.chainhook.uuid = payload.chainhook.uuid
            /\ DOMAIN data.chainhook = {"uuid"}
            /\ DOMAIN payload.chainhook = {"uuid", "predicate"}
            /\ payload.chainhook.predicate = trigger.chainhook.predicate

\* both built for a Trigger with apply and rollback entries, a proof present for one
\* apply entry and absent for another
C9_Witness ==
    /\ NoopHandledAndSerialized
    /\ trigger.rollback # <<>>
    /\ \E i \in 1..Len(trigger.apply) : occurrence.value.value.data.apply[i].proof.some
    /\ \E i \in 1..Len(trigger.apply) : ~occurrence.value.value.data.apply[i].proof.some

====
